---- MODULE Spec2Model ----
(***************************************************************************)
(* A model of servicenow.go: the ServiceNow table-API client.             *)
(*                                                                         *)
(* Go strings are modelled as sequences of one-character strings, so that  *)
(* concatenation, base64 encoding and URL parsing are computed character   *)
(* by character.  A Go pointer / error / slice that may be nil is a record *)
(* with a field "nil".                                                     *)
(***************************************************************************)
EXTENDS Integers, Sequences, FiniteSets, TLC

VARIABLES
    args,      \* the arguments NewServiceNowClient was / will be called with
    snClient,  \* the *ServiceNowClient returned by NewServiceNowClient (or nil)
    newErr,    \* the error returned by NewServiceNowClient
    calls      \* one record per invocation of a public method in progress

vars == <<args, snClient, newErr, calls>>

(***************************************************************************)
(* Bounds of the model.                                                    *)
(***************************************************************************)
\* longest userName / password tried by the construction specification
MaxCredLen == 2
\* longest SysID tried by the sequential specification
MaxSysIDLen == 2
\* number of goroutines calling the client concurrently
NumGoroutines == 2

(***************************************************************************)
(* Strings.                                                                *)
(***************************************************************************)
EmptyString == << >>

\* the byte value of each character the inputs of the model are made of
Ord(ch) ==
    CASE ch = ":" -> 58
      [] ch = "?" -> 63
      [] ch = "~" -> 126
      [] ch = "a" -> 97
      [] ch = "b" -> 98
      [] ch = "o" -> 111

\* []byte(s)
Bytes(s) == [i \in 1..Len(s) |-> Ord(s[i])]

\* strings.IndexByte, 1-based; 0 when ch does not occur in s
IndexOf(s, ch) ==
    IF \E i \in 1..Len(s) : s[i] = ch
    THEN CHOOSE i \in 1..Len(s) : s[i] = ch /\ \A j \in 1..(i - 1) : s[j] # ch
    ELSE 0

Contains(s, ch) == IndexOf(s, ch) # 0

\* strings.Cut(s, ch): before and after the first ch; after is empty when absent
CutBefore(s, ch) == IF Contains(s, ch) THEN SubSeq(s, 1, IndexOf(s, ch) - 1) ELSE s
CutAfter(s, ch) == IF Contains(s, ch) THEN SubSeq(s, IndexOf(s, ch) + 1, Len(s)) ELSE << >>

HasPrefix(s, p) == Len(s) >= Len(p) /\ SubSeq(s, 1, Len(p)) = p

RECURSIVE SeqsUpTo(_, _)
\* every string over alphabet A of length at most n
SeqsUpTo(A, n) ==
    IF n = 0 THEN {<< >>}
    ELSE LET S == SeqsUpTo(A, n - 1) IN S \cup {Append(s, ch) : s \in S, ch \in A}

(***************************************************************************)
(* encoding/base64.                                                        *)
(***************************************************************************)
AlphaNum ==
    << "A", "B", "C", "D", "E", "F", "G", "H", "I", "J", "K", "L", "M",
       "N", "O", "P", "Q", "R", "S", "T", "U", "V", "W", "X", "Y", "Z",
       "a", "b", "c", "d", "e", "f", "g", "h", "i", "j", "k", "l", "m",
       "n", "o", "p", "q", "r", "s", "t", "u", "v", "w", "x", "y", "z",
       "0", "1", "2", "3", "4", "5", "6", "7", "8", "9" >>

\* base64.StdEncoding: the alphabet of RFC 4648 section 4 (HTTP Basic authentication)
encodeStd == AlphaNum \o << "+", "/" >>
\* base64.URLEncoding: the alphabet of RFC 4648 section 5
encodeURL == AlphaNum \o << "-", "_" >>

\* (val >> k) & 0x3F, with shift = 2^k
Sextet(val, shift) == (val \div shift) % 64

RECURSIVE EncodeToString(_, _)
\* (*Encoding).EncodeToString with padding: src is a sequence of bytes
EncodeToString(enc, src) ==
    IF Len(src) = 0 THEN << >>
    ELSE IF Len(src) = 1 THEN
        LET val == src[1] * 65536
        IN << enc[Sextet(val, 262144) + 1], enc[Sextet(val, 4096) + 1], "=", "=" >>
    ELSE IF Len(src) = 2 THEN
        LET val == src[1] * 65536 + src[2] * 256
        IN << enc[Sextet(val, 262144) + 1], enc[Sextet(val, 4096) + 1],
              enc[Sextet(val, 64) + 1], "=" >>
    ELSE
        LET val == src[1] * 65536 + src[2] * 256 + src[3]
        IN << enc[Sextet(val, 262144) + 1], enc[Sextet(val, 4096) + 1],
              enc[Sextet(val, 64) + 1], enc[Sextet(val, 1) + 1] >>
           \o EncodeToString(enc, SubSeq(src, 4, Len(src)))

(***************************************************************************)
(* Constants of servicenow.go.                                             *)
(***************************************************************************)
\* serviceNowBaseURL = "https://%s.service-now.com"
serviceNowBaseURL(instanceName) ==
    << "h", "t", "t", "p", "s", ":", "/", "/" >> \o instanceName
    \o << ".", "s", "e", "r", "v", "i", "c", "e", "-", "n", "o", "w", ".", "c", "o", "m" >>

\* the path part of tableAPI = "%s/api/now/v2/table/%s"
tableAPIPath ==
    << "/", "a", "p", "i", "/", "n", "o", "w", "/", "v", "2", "/", "t", "a", "b", "l", "e", "/" >>

\* tableAPI = "%s/api/now/v2/table/%s"
tableAPI(baseURL, table) == baseURL \o tableAPIPath \o table

IncidentTable == << "i", "n", "c", "i", "d", "e", "n", "t" >>

BasicPrefix == << "B", "a", "s", "i", "c", " " >>

(***************************************************************************)
(* NewServiceNowClient.                                                    *)
(***************************************************************************)
NilClient == [nil |-> TRUE, baseURL |-> << >>, authHeader |-> << >>]
NilError == [kind |-> "nil", code |-> 0]
ConfigError(n) == [kind |-> "config", code |-> n]

\* the variant that forgets the check of the password
NewServiceNowClientNoPasswordCheck(instanceName, userName, password) ==
    IF instanceName = EmptyString THEN [client |-> NilClient, err |-> ConfigError(1)]
    ELSE IF userName = EmptyString THEN [client |-> NilClient, err |-> ConfigError(2)]
    ELSE [client |->
            [nil |-> FALSE,
             baseURL |-> serviceNowBaseURL(instanceName),
             authHeader |-> BasicPrefix
                \o EncodeToString(encodeURL, Bytes(userName \o <<":">> \o password))],
          err |-> NilError]

NewServiceNowClient(instanceName, userName, password) ==
    IF instanceName = EmptyString THEN [client |-> NilClient, err |-> ConfigError(1)]
    ELSE IF userName = EmptyString THEN [client |-> NilClient, err |-> ConfigError(2)]
    ELSE IF password = EmptyString THEN [client |-> NilClient, err |-> ConfigError(3)]
    ELSE [client |->
            [nil |-> FALSE,
             baseURL |-> serviceNowBaseURL(instanceName),
             authHeader |-> BasicPrefix
                \o EncodeToString(encodeURL, Bytes(userName \o <<":">> \o password))],
          err |-> NilError]

(***************************************************************************)
(* The Incident struct and encoding/json's Marshal of it.                  *)
(*                                                                         *)
(* A LinkedValue is an interface{}: dyn is the dynamic type of the value   *)
(* it holds ("nil" for the nil interface, "nilmap" for a nil map, "chan"   *)
(* for a value json cannot encode) and s the string it holds when          *)
(* dyn = "string".                                                         *)
(* A JSON value is [t, v]: t is "null", "string", "number" or "object".    *)
(***************************************************************************)
NilValue == [dyn |-> "nil", s |-> << >>]
StringValue(str) == [dyn |-> "string", s |-> str]
LinkObject == [dyn |-> "map", s |-> << >>]
NilMapValue == [dyn |-> "nilmap", s |-> << >>]
ChanValue == [dyn |-> "chan", s |-> << >>]

\* the struct with every field at its zero value
ZeroIncident ==
    [AssignmentGroup |-> NilValue, ContactType |-> << >>, CallerID |-> NilValue,
     Comments |-> << >>, Description |-> << >>, GroupKey |-> << >>,
     Impact |-> << >>, Number |-> << >>, Priority |-> << >>,
     ShortDescription |-> << >>, State |-> << >>, SysID |-> << >>,
     Urgency |-> << >>]

\* the variant in which the tag of ContactType has lost its omitempty
IncidentFieldsContactTypeNotOmitted ==
    << [field |-> "AssignmentGroup", key |-> "assignment_group", omitempty |-> FALSE, type |-> "interface"],
       [field |-> "ContactType", key |-> "contact_type", omitempty |-> FALSE, type |-> "string"],
       [field |-> "CallerID", key |-> "caller_id", omitempty |-> TRUE, type |-> "interface"],
       [field |-> "Comments", key |-> "comments", omitempty |-> FALSE, type |-> "string"],
       [field |-> "Description", key |-> "description", omitempty |-> FALSE, type |-> "string"],
       [field |-> "GroupKey", key |-> "u_other_reference_1", omitempty |-> FALSE, type |-> "string"],
       [field |-> "Impact", key |-> "impact", omitempty |-> TRUE, type |-> "number"],
       [field |-> "Number", key |-> "number", omitempty |-> TRUE, type |-> "string"],
       [field |-> "Priority", key |-> "priority", omitempty |-> TRUE, type |-> "string"],
       [field |-> "ShortDescription", key |-> "short_description", omitempty |-> FALSE, type |-> "string"],
       [field |-> "State", key |-> "state", omitempty |-> TRUE, type |-> "number"],
       [field |-> "SysID", key |-> "sys_id", omitempty |-> TRUE, type |-> "string"],
       [field |-> "Urgency", key |-> "urgency", omitempty |-> TRUE, type |-> "number"] >>

\* the fields of type Incident with their json tags, in declaration order
IncidentFields ==
    << [field |-> "AssignmentGroup", key |-> "assignment_group", omitempty |-> FALSE, type |-> "interface"],
       [field |-> "ContactType", key |-> "contact_type", omitempty |-> TRUE, type |-> "string"],
       [field |-> "CallerID", key |-> "caller_id", omitempty |-> TRUE, type |-> "interface"],
       [field |-> "Comments", key |-> "comments", omitempty |-> FALSE, type |-> "string"],
       [field |-> "Description", key |-> "description", omitempty |-> FALSE, type |-> "string"],
       [field |-> "GroupKey", key |-> "u_other_reference_1", omitempty |-> FALSE, type |-> "string"],
       [field |-> "Impact", key |-> "impact", omitempty |-> TRUE, type |-> "number"],
       [field |-> "Number", key |-> "number", omitempty |-> TRUE, type |-> "string"],
       [field |-> "Priority", key |-> "priority", omitempty |-> TRUE, type |-> "string"],
       [field |-> "ShortDescription", key |-> "short_description", omitempty |-> FALSE, type |-> "string"],
       [field |-> "State", key |-> "state", omitempty |-> TRUE, type |-> "number"],
       [field |-> "SysID", key |-> "sys_id", omitempty |-> TRUE, type |-> "string"],
       [field |-> "Urgency", key |-> "urgency", omitempty |-> TRUE, type |-> "number"] >>

Digits == {"0", "1", "2", "3", "4", "5", "6", "7", "8", "9"}

RECURSIVE SkipDigits(_)
\* for len(s) > 0 && '0' <= s[0] && s[0] <= '9' { s = s[1:] }
SkipDigits(s) == IF s # << >> /\ Head(s) \in Digits THEN SkipDigits(Tail(s)) ELSE s

\* encoding/json isValidNumber, stage by stage; "fail" stands for return false
NumAfterSign(s) == IF s # << >> /\ Head(s) = "-" THEN Tail(s) ELSE s
NumAfterInt(s) ==
    IF s = << >> THEN <<"fail">>
    ELSE IF Head(s) = "0" THEN Tail(s)
    ELSE IF Head(s) \in Digits THEN SkipDigits(Tail(s))
    ELSE <<"fail">>
NumAfterFrac(s) ==
    IF Len(s) >= 2 /\ s[1] = "." /\ s[2] \in Digits
    THEN SkipDigits(SubSeq(s, 3, Len(s)))
    ELSE s
NumAfterExp(s) ==
    IF Len(s) >= 2 /\ s[1] \in {"e", "E"}
    THEN IF s[2] \in {"+", "-"}
         THEN (IF Len(s) = 2 THEN <<"fail">> ELSE SkipDigits(SubSeq(s, 3, Len(s))))
         ELSE SkipDigits(Tail(s))
    ELSE s
isValidNumber(s) ==
    /\ s # << >>
    /\ NumAfterInt(NumAfterSign(s)) # <<"fail">>
    /\ NumAfterExp(NumAfterFrac(NumAfterInt(NumAfterSign(s)))) = << >>

\* encoding/json isEmptyValue, for the kinds the struct has
isEmptyValue(type, v) ==
    IF type = "interface" THEN v.dyn = "nil" ELSE v = << >>

\* the encoder of one field value: ok is FALSE when Marshal fails on it
encodeValue(type, v) ==
    IF type = "string" THEN [ok |-> TRUE, json |-> [t |-> "string", v |-> v]]
    ELSE IF type = "number" THEN
        LET numStr == IF v = << >> THEN <<"0">> ELSE v
        IN [ok |-> isValidNumber(numStr), json |-> [t |-> "number", v |-> numStr]]
    ELSE IF v.dyn \in {"nil", "nilmap"} THEN [ok |-> TRUE, json |-> [t |-> "null", v |-> << >>]]
    ELSE IF v.dyn = "string" THEN [ok |-> TRUE, json |-> [t |-> "string", v |-> v.s]]
    ELSE IF v.dyn = "map" THEN [ok |-> TRUE, json |-> [t |-> "object", v |-> << >>]]
    ELSE [ok |-> FALSE, json |-> [t |-> "null", v |-> << >>]]

\* the indexes of the fields json.Marshal writes for incident
EncodedFields(incident) ==
    {i \in DOMAIN IncidentFields :
        ~(IncidentFields[i].omitempty
          /\ isEmptyValue(IncidentFields[i].type, incident[IncidentFields[i].field]))}

NoBody == [k \in {} |-> [t |-> "null", v |-> << >>]]

\* json.Marshal(incident): the JSON object as a function from its keys to their values
Marshal(incident) ==
    LET enc(i) == encodeValue(IncidentFields[i].type, incident[IncidentFields[i].field])
        present == EncodedFields(incident)
        keyIndex(k) == CHOOSE i \in present : IncidentFields[i].key = k
    IN IF \E i \in present : ~enc(i).ok
       THEN [ok |-> FALSE, body |-> NoBody]
       ELSE [ok |-> TRUE,
             body |-> [k \in {IncidentFields[i].key : i \in present} |-> enc(keyIndex(k)).json]]

(***************************************************************************)
(* net/url and net/http, as far as create, get and update use them.        *)
(***************************************************************************)
\* the ASCII control characters the inputs of the model contain
ControlChars == {"\t"}

\* net/url stringContainsCTLByte
stringContainsCTLByte(s) == \E i \in 1..Len(s) : s[i] \in ControlChars

Count(s, ch) == Cardinality({i \in 1..Len(s) : s[i] = ch})

SchemeHTTPS == << "h", "t", "t", "p", "s", ":" >>

NoURL == [host |-> << >>, path |-> << >>, rawQuery |-> << >>, fragment |-> << >>]

\* url.Parse(rawURL) for an https URL without userinfo, port or percent escapes:
\* the fragment is cut at the first "#", the query at the first "?", the
\* authority runs from "//" to the next "/", the rest is the path
ParseURL(rawURL) ==
    LET u == CutBefore(rawURL, "#")
        afterScheme == SubSeq(u, Len(SchemeHTTPS) + 1, Len(u))
        forceQuery == afterScheme # << >> /\ afterScheme[Len(afterScheme)] = "?"
                      /\ Count(afterScheme, "?") = 1
        rest == IF forceQuery THEN SubSeq(afterScheme, 1, Len(afterScheme) - 1)
                ELSE CutBefore(afterScheme, "?")
        authority == CutBefore(SubSeq(rest, 3, Len(rest)), "/")
    IN IF stringContainsCTLByte(u) \/ ~HasPrefix(u, SchemeHTTPS \o <<"/", "/">>)
       THEN [ok |-> FALSE, url |-> NoURL]
       ELSE [ok |-> TRUE,
             url |-> [host |-> authority,
                      path |-> SubSeq(rest, 3 + Len(authority), Len(rest)),
                      rawQuery |-> IF forceQuery THEN << >> ELSE CutAfter(afterScheme, "?"),
                      fragment |-> CutAfter(rawURL, "#")]]

NoHeader == [k \in {} |-> << >>]

\* http.Header.Set
HeaderSet(h, key, value) ==
    [k \in DOMAIN h \cup {key} |-> IF k = key THEN value ELSE h[k]]

NoRequest == [nil |-> TRUE, method |-> "", url |-> NoURL, header |-> NoHeader, body |-> NoBody]

\* http.NewRequest(method, url, body): fails when the URL does not parse
NewRequest(method, url, body) ==
    LET p == ParseURL(url)
    IN IF p.ok
       THEN [ok |-> TRUE,
             req |-> [nil |-> FALSE, method |-> method, url |-> p.url,
                      header |-> NoHeader, body |-> body]]
       ELSE [ok |-> FALSE, req |-> NoRequest]

(***************************************************************************)
(* The query parameters of get.                                            *)
(***************************************************************************)
ParamActive == << "a", "c", "t", "i", "v", "e" >>
ParamPriority == << "p", "r", "i", "o", "r", "i", "t", "y" >>
\* the keys the model passes to GetIncidents, in the sorted order url.Values.Encode uses
SortedParamKeys == << ParamActive, ParamPriority >>

\* url.QueryEscape over letters, digits and the space
QueryEscape(s) == [i \in 1..Len(s) |-> IF s[i] = " " THEN "+" ELSE s[i]]

RECURSIVE EncodeFrom(_, _)
\* url.Values.Encode: key=value pairs joined by "&", by ascending key
EncodeFrom(q, i) ==
    IF i > Len(SortedParamKeys) THEN << >>
    ELSE IF SortedParamKeys[i] \notin DOMAIN q THEN EncodeFrom(q, i + 1)
    ELSE LET rest == EncodeFrom(q, i + 1)
             pair == QueryEscape(SortedParamKeys[i]) \o <<"=">> \o QueryEscape(q[SortedParamKeys[i]])
         IN IF rest = << >> THEN pair ELSE pair \o <<"&">> \o rest

NoParams == [k \in {} |-> << >>]

(***************************************************************************)
(* One invocation of CreateIncident, GetIncidents or UpdateIncident.       *)
(*                                                                         *)
(* pc is the position of the goroutine in the method; sent is the list of  *)
(* requests the invocation has handed to snClient.client.Do; bodyReads,    *)
(* bodyCloses and decodes count the calls of ioutil.ReadAll(resp.Body),    *)
(* resp.Body.Close() and json.Unmarshal; result and err are the values     *)
(* the method returns once pc = "done".                                    *)
(***************************************************************************)
ApplicationJSON ==
    << "a", "p", "p", "l", "i", "c", "a", "t", "i", "o", "n", "/", "j", "s", "o", "n" >>

NoResponse == [nil |-> TRUE, StatusCode |-> 0]
NoDocument == [kind |-> "none", number |-> << >>, sysID |-> << >>, count |-> 0]
NilResult == [nil |-> TRUE, incidents |-> << >>]

MarshalError == [kind |-> "marshal", code |-> 0]
NewRequestError == [kind |-> "newrequest", code |-> 0]
UnmarshalError == [kind |-> "unmarshal", code |-> 0]
\* errors.New(fmt.Sprintf("ServiceNow returned the HTTP error code: %v", resp.StatusCode))
RemoteError(status) == [kind |-> "remote", code |-> status]

IdleCall ==
    [pc |-> "idle", op |-> "none", incident |-> ZeroIncident, params |-> NoParams,
     postBody |-> NoBody, req |-> NoRequest, sent |-> << >>, doErr |-> NilError,
     resp |-> NoResponse, deferred |-> FALSE, bodyReads |-> 0, bodyCloses |-> 0,
     responseBody |-> NoDocument, decodes |-> 0, result |-> NilResult, err |-> NilError]

\* return result, err from the public method
Returned(call, result, err) ==
    [call EXCEPT !.pc = "done", !.result = result, !.err = err]

\* postBody, err := json.Marshal(incident); if err != nil { return nil, err }
marshalIncident(call) ==
    LET m == Marshal(call.incident)
    IN IF ~m.ok THEN Returned(call, NilResult, MarshalError)
       ELSE [call EXCEPT !.postBody = m.body, !.pc = "build"]

\* what create, get and update do with the outcome of http.NewRequest
withRequest(call, r) ==
    IF ~r.ok THEN Returned(call, NilResult, NewRequestError)
    ELSE [call EXCEPT !.req = r.req, !.pc = "headers"]

\* the variant of create that keeps the URL in the client instead of a local
createStoringURL(cl, call) ==
    LET url == tableAPI(cl.baseURL, IncidentTable)
    IN [snClient |-> [cl EXCEPT !.baseURL = url],
        call |-> withRequest(call, NewRequest("POST", url, call.postBody))]

\* create("incident", postBody) up to its call of doRequest
create(cl, call) ==
    LET url == tableAPI(cl.baseURL, IncidentTable)
    IN [snClient |-> cl,
        call |-> withRequest(call, NewRequest("POST", url, call.postBody))]

\* get("incident", params) up to its call of doRequest
get(cl, call) ==
    LET url == tableAPI(cl.baseURL, IncidentTable)
        r == NewRequest("GET", url, NoBody)
    IN [snClient |-> cl,
        call |-> withRequest(call,
                    IF r.ok
                    THEN [r EXCEPT !.req.url.rawQuery = EncodeFrom(call.params, 1)]
                    ELSE r)]

\* update("incident", postBody, incident.SysID) up to its call of doRequest
update(cl, call) ==
    LET url == tableAPI(cl.baseURL, IncidentTable) \o <<"/">> \o call.incident.SysID
    IN [snClient |-> cl,
        call |-> withRequest(call, NewRequest("PUT", url, call.postBody))]

\* the variant of doRequest that forgets the Authorization header
setHeadersWithoutAuthorization(cl, call) ==
    [snClient |-> cl,
     call |-> [call EXCEPT
                !.req.header = HeaderSet(@, "Content-Type", ApplicationJSON),
                !.pc = "send"]]

\* doRequest: the two req.Header.Set calls
setHeaders(cl, call) ==
    [snClient |-> cl,
     call |-> [call EXCEPT
                !.req.header = HeaderSet(HeaderSet(@, "Content-Type", ApplicationJSON),
                                         "Authorization", cl.authHeader),
                !.pc = "send"]]

\* the variant of doRequest that sends the request again when the transport fails
doFailedRetrying(call, e) ==
    [call EXCEPT !.sent = Append(@, call.req), !.doErr = e]

\* doRequest: snClient.client.Do(req) returned the error e
doFailed(call, e) ==
    Returned([call EXCEPT !.sent = Append(@, call.req), !.doErr = e], NilResult, e)

\* doRequest: snClient.client.Do(req) returned a response with this status
doAnswered(call, status) ==
    [call EXCEPT !.sent = Append(@, call.req),
                 !.resp = [nil |-> FALSE, StatusCode |-> status],
                 !.pc = "status"]

\* the variant of the status test with > in place of >=
IsErrorStatusStrict(status) == status > 400

\* resp.StatusCode >= 400
IsErrorStatus(status) == status >= 400

\* the deferred calls of doRequest, run as it returns
runDeferred(call) ==
    IF call.deferred
    THEN [call EXCEPT !.bodyCloses = @ + 1, !.deferred = FALSE]
    ELSE call

\* doRequest: the status test, and defer resp.Body.Close() behind it
checkStatus(call) ==
    IF IsErrorStatus(call.resp.StatusCode)
    THEN runDeferred(Returned(call, NilResult, RemoteError(call.resp.StatusCode)))
    ELSE [call EXCEPT !.deferred = TRUE, !.pc = "read"]

\* doRequest: ioutil.ReadAll(resp.Body) failed with e
readFailed(call, e) ==
    runDeferred(Returned([call EXCEPT !.bodyReads = @ + 1], NilResult, e))

\* doRequest: ioutil.ReadAll(resp.Body) returned the document doc
readDone(call, doc) ==
    runDeferred([call EXCEPT !.bodyReads = @ + 1, !.responseBody = doc, !.pc = "decode"])

\* json.Unmarshal(response, &IncidentResponse{}): {"result": {...}}
UnmarshalIncidentResponse(doc) ==
    IF doc.kind \in {"null", "empty_object"}
    THEN [ok |-> TRUE, result |-> ZeroIncident]
    ELSE IF doc.kind = "result_object"
    THEN [ok |-> TRUE,
          result |-> [ZeroIncident EXCEPT !.Number = doc.number, !.SysID = doc.sysID]]
    ELSE [ok |-> FALSE, result |-> ZeroIncident]

\* json.Unmarshal(response, &IncidentsResponse{}): {"result": [...]}
UnmarshalIncidentsResponse(doc) ==
    IF doc.kind \in {"null", "empty_object"}
    THEN [ok |-> TRUE, result |-> NilResult]
    ELSE IF doc.kind = "result_array"
    THEN [ok |-> TRUE,
          result |-> [nil |-> FALSE,
                      incidents |-> [i \in 1..doc.count |->
                          [ZeroIncident EXCEPT !.Number = doc.number, !.SysID = doc.sysID]]]]
    ELSE [ok |-> FALSE, result |-> NilResult]

\* the variant that returns the decoded struct together with the decode error
unmarshalIncidentKeepingResult(call) ==
    LET u == UnmarshalIncidentResponse(call.responseBody)
        c == [call EXCEPT !.decodes = @ + 1]
    IN Returned(c, [nil |-> FALSE, incidents |-> <<u.result>>],
                IF u.ok THEN NilError ELSE UnmarshalError)

\* CreateIncident / UpdateIncident from json.Unmarshal to the return
unmarshalIncident(call) ==
    LET u == UnmarshalIncidentResponse(call.responseBody)
        c == [call EXCEPT !.decodes = @ + 1]
    IN IF ~u.ok THEN Returned(c, NilResult, UnmarshalError)
       ELSE Returned(c, [nil |-> FALSE, incidents |-> <<u.result>>], NilError)

\* GetIncidents from json.Unmarshal to the return
unmarshalIncidents(call) ==
    LET u == UnmarshalIncidentsResponse(call.responseBody)
        c == [call EXCEPT !.decodes = @ + 1]
    IN IF ~u.ok THEN Returned(c, NilResult, UnmarshalError)
       ELSE Returned(c, u.result, NilError)

(***************************************************************************)
(* The inputs the specifications draw from.                                *)
(***************************************************************************)
InstanceNames == {<< >>, <<"a">>, <<"b", "o", "b">>}
CredentialChars == {"a", "?", "~"}
Credentials == SeqsUpTo(CredentialChars, MaxCredLen)

SysIDChars == {"a", "?", "#", "/", "\t"}
ImpactValues == {<< >>, <<"2">>, <<"x">>}

TransportError(n) == [kind |-> "transport", code |-> n]
ReadError == [kind |-> "read", code |-> 0]

InvalidDocument == [kind |-> "invalid", number |-> << >>, sysID |-> << >>, count |-> 0]
EmptyObject == [kind |-> "empty_object", number |-> << >>, sysID |-> << >>, count |-> 0]
ResultObject ==
    [kind |-> "result_object", number |-> <<"I", "N", "C", "1">>,
     sysID |-> <<"a", "b", "c">>, count |-> 1]
ResultArray(n) ==
    [kind |-> "result_array", number |-> <<"I", "N", "C", "1">>,
     sysID |-> <<"a", "b", "c">>, count |-> n]

\* the inputs of the sequential specification
SeqInputs ==
    [incidents |-> {[ZeroIncident EXCEPT !.SysID = id, !.Impact = n] :
                        id \in SeqsUpTo(SysIDChars, MaxSysIDLen), n \in ImpactValues},
     params |-> {NoParams,
                 [k \in {ParamActive} |-> <<"t", "r", "u", "e">>],
                 [k \in {ParamActive, ParamPriority} |->
                     IF k = ParamActive THEN <<"t", "r", "u", "e">> ELSE <<"1", " ", "2">>]},
     doErrors |-> {TransportError(1), TransportError(2)},
     statuses |-> {200, 201, 399, 400, 404, 500},
     documents |-> {InvalidDocument, EmptyObject, ResultObject, ResultArray(0), ResultArray(1)}]

\* the inputs of the concurrent specification
ConcInputs ==
    [incidents |-> {[ZeroIncident EXCEPT !.SysID = <<"a">>],
                    [ZeroIncident EXCEPT !.SysID = <<"a">>, !.Impact = <<"x">>]},
     params |-> {NoParams, [k \in {ParamActive} |-> <<"t", "r", "u", "e">>]},
     doErrors |-> {TransportError(1)},
     statuses |-> {200, 400},
     documents |-> {InvalidDocument, ResultObject, ResultArray(1)}]

\* the inputs of the specification of json.Marshal: every field set and unset
MarshalInputs ==
    [incidents |->
        {[AssignmentGroup |-> ag, ContactType |-> ct, CallerID |-> ci, Comments |-> co,
          Description |-> de, GroupKey |-> gk, Impact |-> im, Number |-> nu,
          Priority |-> pr, ShortDescription |-> sd, State |-> st, SysID |-> id,
          Urgency |-> ur] :
            ag \in {NilValue, StringValue(<< >>), StringValue(<<"g">>), ChanValue},
            ct \in {<< >>, <<"c">>},
            ci \in {NilValue, NilMapValue, StringValue(<< >>), StringValue(<<"u">>), LinkObject},
            co \in {<< >>, <<"c">>}, de \in {<< >>, <<"d">>}, gk \in {<< >>, <<"k">>},
            im \in ImpactValues, nu \in {<< >>, <<"n">>}, pr \in {<< >>, <<"1">>},
            sd \in {<< >>, <<"s">>}, st \in {<< >>, <<"1">>}, id \in {<< >>, <<"a">>},
            ur \in {<< >>, <<"3">>}},
     params |-> {NoParams},
     doErrors |-> {TransportError(1)},
     statuses |-> {200},
     documents |-> {ResultObject}]

(***************************************************************************)
(* Actions.                                                                *)
(***************************************************************************)
\* NewServiceNowClient(instanceName, userName, password) is called
Construct ==
    /\ ~args.called
    /\ LET r == NewServiceNowClient(args.instanceName, args.userName, args.password)
       IN /\ snClient' = r.client
          /\ newErr' = r.err
    /\ args' = [args EXCEPT !.called = TRUE]
    /\ UNCHANGED calls

\* a goroutine calls snClient.CreateIncident(incident)
CallCreateIncident(c, in) ==
    /\ ~snClient.nil
    /\ calls[c].pc = "idle"
    /\ \E incident \in in.incidents :
        calls' = [calls EXCEPT ![c] =
                    [IdleCall EXCEPT !.pc = "marshal", !.op = "CreateIncident",
                                     !.incident = incident]]
    /\ UNCHANGED <<args, snClient, newErr>>

\* a goroutine calls snClient.GetIncidents(params)
CallGetIncidents(c, in) ==
    /\ ~snClient.nil
    /\ calls[c].pc = "idle"
    /\ \E params \in in.params :
        calls' = [calls EXCEPT ![c] =
                    [IdleCall EXCEPT !.pc = "build", !.op = "GetIncidents",
                                     !.params = params]]
    /\ UNCHANGED <<args, snClient, newErr>>

\* a goroutine calls snClient.UpdateIncident(incident)
CallUpdateIncident(c, in) ==
    /\ ~snClient.nil
    /\ calls[c].pc = "idle"
    /\ \E incident \in in.incidents :
        calls' = [calls EXCEPT ![c] =
                    [IdleCall EXCEPT !.pc = "marshal", !.op = "UpdateIncident",
                                     !.incident = incident]]
    /\ UNCHANGED <<args, snClient, newErr>>

\* CreateIncident / UpdateIncident: json.Marshal(incident)
MarshalIncident(c) ==
    /\ calls[c].pc = "marshal"
    /\ calls' = [calls EXCEPT ![c] = marshalIncident(calls[c])]
    /\ UNCHANGED <<args, snClient, newErr>>

\* the receiver and the call after a step of a method with a pointer receiver
Step(c, r) ==
    /\ snClient' = r.snClient
    /\ calls' = [calls EXCEPT ![c] = r.call]
    /\ UNCHANGED <<args, newErr>>

\* create builds the POST request
Create(c) ==
    /\ calls[c].pc = "build"
    /\ calls[c].op = "CreateIncident"
    /\ Step(c, create(snClient, calls[c]))

\* get builds the GET request
Get(c) ==
    /\ calls[c].pc = "build"
    /\ calls[c].op = "GetIncidents"
    /\ Step(c, get(snClient, calls[c]))

\* update builds the PUT request
Update(c) ==
    /\ calls[c].pc = "build"
    /\ calls[c].op = "UpdateIncident"
    /\ Step(c, update(snClient, calls[c]))

\* doRequest sets the two headers
SetHeaders(c) ==
    /\ calls[c].pc = "headers"
    /\ Step(c, setHeaders(snClient, calls[c]))

\* doRequest: snClient.client.Do(req) fails
DoFails(c, in) ==
    /\ calls[c].pc = "send"
    /\ \E e \in in.doErrors : calls' = [calls EXCEPT ![c] = doFailed(calls[c], e)]
    /\ UNCHANGED <<args, snClient, newErr>>

\* doRequest: snClient.client.Do(req) returns a response
DoAnswers(c, in) ==
    /\ calls[c].pc = "send"
    /\ \E status \in in.statuses : calls' = [calls EXCEPT ![c] = doAnswered(calls[c], status)]
    /\ UNCHANGED <<args, snClient, newErr>>

\* doRequest: the test of resp.StatusCode
CheckStatus(c) ==
    /\ calls[c].pc = "status"
    /\ calls' = [calls EXCEPT ![c] = checkStatus(calls[c])]
    /\ UNCHANGED <<args, snClient, newErr>>

\* doRequest: ioutil.ReadAll(resp.Body) fails
ReadFails(c) ==
    /\ calls[c].pc = "read"
    /\ calls' = [calls EXCEPT ![c] = readFailed(calls[c], ReadError)]
    /\ UNCHANGED <<args, snClient, newErr>>

\* doRequest: ioutil.ReadAll(resp.Body) returns the body
ReadSucceeds(c, in) ==
    /\ calls[c].pc = "read"
    /\ \E doc \in in.documents : calls' = [calls EXCEPT ![c] = readDone(calls[c], doc)]
    /\ UNCHANGED <<args, snClient, newErr>>

\* CreateIncident / UpdateIncident: json.Unmarshal and the return
UnmarshalIncident(c) ==
    /\ calls[c].pc = "decode"
    /\ calls[c].op \in {"CreateIncident", "UpdateIncident"}
    /\ calls' = [calls EXCEPT ![c] = unmarshalIncident(calls[c])]
    /\ UNCHANGED <<args, snClient, newErr>>

\* GetIncidents: json.Unmarshal and the return
UnmarshalIncidents(c) ==
    /\ calls[c].pc = "decode"
    /\ calls[c].op = "GetIncidents"
    /\ calls' = [calls EXCEPT ![c] = unmarshalIncidents(calls[c])]
    /\ UNCHANGED <<args, snClient, newErr>>

\* the caller has taken the returned values; the goroutine may call again
Finish(c) ==
    /\ calls[c].pc = "done"
    /\ calls' = [calls EXCEPT ![c] = IdleCall]
    /\ UNCHANGED <<args, snClient, newErr>>

\* one step of goroutine c with inputs drawn from in
GoroutineStep(c, in) ==
    \/ CallCreateIncident(c, in)
    \/ CallGetIncidents(c, in)
    \/ CallUpdateIncident(c, in)
    \/ MarshalIncident(c)
    \/ Create(c)
    \/ Get(c)
    \/ Update(c)
    \/ SetHeaders(c)
    \/ DoFails(c, in)
    \/ DoAnswers(c, in)
    \/ CheckStatus(c)
    \/ ReadFails(c)
    \/ ReadSucceeds(c, in)
    \/ UnmarshalIncident(c)
    \/ UnmarshalIncidents(c)
    \/ Finish(c)

(***************************************************************************)
(* Specifications.                                                         *)
(***************************************************************************)
\* a client built from valid arguments
Constructed(instanceName, userName, password) ==
    /\ args = [instanceName |-> instanceName, userName |-> userName,
               password |-> password, called |-> TRUE]
    /\ snClient = NewServiceNowClient(instanceName, userName, password).client
    /\ newErr = NewServiceNowClient(instanceName, userName, password).err

\* Spec: one goroutine calls the methods of a client one after the other
Init ==
    /\ \E instanceName \in InstanceNames \ {<< >>}, password \in {<<"a">>, <<"~">>} :
        Constructed(instanceName, <<"b", "o", "b">>, password)
    /\ calls = [c \in 1..1 |-> IdleCall]

Next == \E c \in 1..1 : GoroutineStep(c, SeqInputs)

Spec == Init /\ [][Next]_vars

\* SpecConc: NumGoroutines goroutines share one client
InitConc ==
    /\ Constructed(<<"a">>, <<"b", "o", "b">>, <<"a">>)
    /\ calls = [c \in 1..NumGoroutines |-> IdleCall]

NextConc == \E c \in 1..NumGoroutines : GoroutineStep(c, ConcInputs)

SpecConc == InitConc /\ [][NextConc]_vars

\* SpecNew: NewServiceNowClient applied to every combination of arguments
InitNew ==
    /\ args \in [instanceName : InstanceNames, userName : Credentials,
                 password : Credentials, called : {FALSE}]
    /\ snClient = NilClient
    /\ newErr = NilError
    /\ calls = << >>

NextNew == Construct

SpecNew == InitNew /\ [][NextNew]_vars

\* SpecMarshal: the request body CreateIncident and UpdateIncident build
InitMarshal ==
    /\ Constructed(<<"a">>, <<"b", "o", "b">>, <<"a">>)
    /\ calls = [c \in 1..1 |-> IdleCall]

NextMarshal ==
    \E c \in 1..1 :
        \/ CallCreateIncident(c, MarshalInputs)
        \/ CallUpdateIncident(c, MarshalInputs)
        \/ MarshalIncident(c)
        \/ Finish(c)

SpecMarshal == InitMarshal /\ [][NextMarshal]_vars

(***************************************************************************)
(* Properties.                                                             *)
(***************************************************************************)
HTTPSPrefix == << "h", "t", "t", "p", "s", ":", "/", "/" >>
ServiceNowDomain ==
    << ".", "s", "e", "r", "v", "i", "c", "e", "-", "n", "o", "w", ".", "c", "o", "m" >>
IncidentPath ==
    << "/", "a", "p", "i", "/", "n", "o", "w", "/", "v", "2", "/", "t", "a", "b", "l", "e", "/",
       "i", "n", "c", "i", "d", "e", "n", "t" >>

\* C1: in each of CreateIncident, GetIncidents and UpdateIncident, once the
\* transport has returned a response with status >= 400 and doRequest has tested
\* it, the method has returned an error and a nil result, and the response body
\* has been neither read nor JSON-decoded.
C1_ErrorStatusFails ==
    \A c \in DOMAIN calls :
        (~calls[c].resp.nil /\ calls[c].resp.StatusCode >= 400 /\ calls[c].pc # "status")
        => /\ calls[c].pc = "done"
           /\ calls[c].err # NilError
           /\ calls[c].result.nil
           /\ calls[c].bodyReads = 0
           /\ calls[c].decodes = 0

\* C1 witness: CreateIncident has returned after the server answered 500.
C1_Witness ==
    \E c \in DOMAIN calls :
        /\ calls[c].op = "CreateIncident"
        /\ calls[c].pc = "done"
        /\ calls[c].resp.StatusCode = 500

\* C2: every CreateIncident or UpdateIncident that has returned either made the
\* whole round trip (one request sent, body read, body decoded) and returns a
\* non-nil pointer with a nil error, or returns a nil pointer with a non-nil error.
C2_NoPartialSuccess ==
    \A c \in DOMAIN calls :
        (calls[c].pc = "done" /\ calls[c].op \in {"CreateIncident", "UpdateIncident"})
        => \/ /\ calls[c].err = NilError
              /\ ~calls[c].result.nil
              /\ Len(calls[c].result.incidents) = 1
              /\ Len(calls[c].sent) = 1
              /\ calls[c].bodyReads = 1
              /\ calls[c].decodes = 1
              /\ UnmarshalIncidentResponse(calls[c].responseBody).ok
           \/ /\ calls[c].err # NilError
              /\ calls[c].result.nil

\* C2 witness: UpdateIncident has returned after json.Unmarshal failed on the body.
C2_Witness ==
    \E c \in DOMAIN calls :
        /\ calls[c].op = "UpdateIncident"
        /\ calls[c].pc = "done"
        /\ calls[c].decodes = 1
        /\ calls[c].responseBody = InvalidDocument

\* C3: NewServiceNowClient returns an error and a nil client when one of its three
\* arguments is empty, and otherwise a nil error and a client whose baseURL is
\* "https://" + instanceName + ".service-now.com".
C3_Construction ==
    args.called =>
        IF args.instanceName = << >> \/ args.userName = << >> \/ args.password = << >>
        THEN snClient.nil /\ newErr # NilError
        ELSE /\ ~snClient.nil
             /\ newErr = NilError
             /\ snClient.baseURL = HTTPSPrefix \o args.instanceName \o ServiceNowDomain

\* C3 witness: the constructor was called with only the password empty.
C3_Witness ==
    /\ args.called
    /\ args.instanceName # << >>
    /\ args.userName # << >>
    /\ args.password = << >>

\* C4: UpdateIncident sends a PUT request only for an incident whose SysID is not
\* empty, and the path of every PUT request it sends is
\* /api/now/v2/table/incident/ followed by that SysID.
C4_UpdateTargetsSysID ==
    \A c \in DOMAIN calls :
        \A i \in 1..Len(calls[c].sent) :
            calls[c].sent[i].method = "PUT"
            => /\ calls[c].incident.SysID # << >>
               /\ calls[c].sent[i].url.path = IncidentPath \o <<"/">> \o calls[c].incident.SysID

\* the keys of the fields tagged omitempty whose Go type is string or json.Number
OmitEmptyTextKeys ==
    [contact_type |-> "ContactType", impact |-> "Impact", number |-> "Number",
     priority |-> "Priority", state |-> "State", sys_id |-> "SysID", urgency |-> "Urgency"]

\* C5 (as stated): the JSON object CreateIncident and UpdateIncident send has no
\* key whose value is null or the empty string.
C5_NoNullOrEmptyValue ==
    \A c \in DOMAIN calls :
        calls[c].pc = "build"
        => \A k \in DOMAIN calls[c].postBody :
            /\ calls[c].postBody[k].t # "null"
            /\ ~(calls[c].postBody[k].t = "string" /\ calls[c].postBody[k].v = << >>)

\* C5 (amended): in the JSON object CreateIncident and UpdateIncident send, the
\* keys of ContactType, Impact, Number, Priority, State, SysID and Urgency are
\* present exactly when the field is not the empty string, and then carry that
\* non-empty value; caller_id is present exactly when CallerID is not nil; and
\* assignment_group, comments, description, u_other_reference_1 and
\* short_description are always present.
C5_OmitEmptyFields ==
    \A c \in DOMAIN calls :
        calls[c].pc = "build"
        => LET body == calls[c].postBody
               inc == calls[c].incident
           IN /\ {"assignment_group", "comments", "description",
                  "u_other_reference_1", "short_description"} \subseteq DOMAIN body
              /\ \A k \in DOMAIN OmitEmptyTextKeys :
                    /\ k \in DOMAIN body <=> inc[OmitEmptyTextKeys[k]] # << >>
                    /\ k \in DOMAIN body
                        => body[k].t \in {"string", "number"}
                           /\ body[k].v = inc[OmitEmptyTextKeys[k]]
              /\ "caller_id" \in DOMAIN body <=> inc.CallerID.dyn # "nil"
              /\ DOMAIN body \subseteq
                    {"assignment_group", "comments", "description", "u_other_reference_1",
                     "short_description", "caller_id"} \cup DOMAIN OmitEmptyTextKeys

\* C5 witness: CreateIncident has serialized an Incident with every field unset.
C5_Witness ==
    \E c \in DOMAIN calls :
        /\ calls[c].op = "CreateIncident"
        /\ calls[c].pc = "build"
        /\ calls[c].incident = ZeroIncident

\* C6: the Authorization value NewServiceNowClient precomputes is "Basic " followed
\* by the standard-alphabet base64 encoding of userName + ":" + password.
C6_AuthHeaderIsStandardBase64 ==
    (args.called /\ ~snClient.nil)
    => snClient.authHeader =
         <<"B", "a", "s", "i", "c", " ">>
         \o EncodeToString(encodeStd, Bytes(args.userName \o <<":">> \o args.password))

\* C7: one invocation hands at most one request to the transport; when the
\* transport fails, the method returns the transport's error itself without
\* sending again; when json.Marshal fails, no request has been sent.
C7_SingleRequest ==
    \A c \in DOMAIN calls :
        /\ Len(calls[c].sent) <= 1
        /\ calls[c].doErr # NilError
            => /\ calls[c].pc = "done"
               /\ calls[c].err = calls[c].doErr
               /\ calls[c].result.nil
               /\ Len(calls[c].sent) = 1
        /\ calls[c].err = MarshalError => calls[c].sent = << >>

\* C7 witness: GetIncidents has returned after the transport failed.
C7_Witness ==
    \E c \in DOMAIN calls :
        /\ calls[c].op = "GetIncidents"
        /\ calls[c].pc = "done"
        /\ calls[c].doErr = TransportError(2)

\* C8: every request handed to the transport carries Content-Type:
\* application/json and the Authorization value precomputed at construction.
C8_HeadersOnEveryRequest ==
    \A c \in DOMAIN calls :
        \A i \in 1..Len(calls[c].sent) :
            /\ {"Content-Type", "Authorization"} \subseteq DOMAIN calls[c].sent[i].header
            /\ calls[c].sent[i].header["Content-Type"] = ApplicationJSON
            /\ calls[c].sent[i].header["Authorization"] =
                 NewServiceNowClient(args.instanceName, args.userName, args.password).client.authHeader

\* C8 witness: a PUT request has reached the transport.
C8_Witness ==
    \E c \in DOMAIN calls :
        /\ Len(calls[c].sent) = 1
        /\ calls[c].sent[1].method = "PUT"

\* C9: whenever the transport returned a response, the response body has been
\* closed exactly once by the time doRequest has returned, whatever the status
\* and whether or not reading the body succeeded.
C9_BodyClosedExactlyOnce ==
    \A c \in DOMAIN calls :
        (~calls[c].resp.nil /\ calls[c].pc \in {"decode", "done"})
        => calls[c].bodyCloses = 1

\* C10: under any interleaving of concurrent calls, baseURL and authHeader keep
\* the values NewServiceNowClient gave them, and a step of one call leaves the
\* request and the locals of every other call as they were.
C10_ClientImmutable ==
    /\ [](snClient = NewServiceNowClient(args.instanceName, args.userName, args.password).client)
    /\ [][/\ snClient' = snClient
          /\ \A c, d \in DOMAIN calls :
                c # d => (calls'[c] = calls[c] \/ calls'[d] = calls[d])]_vars

\* C10 witness: two calls are in flight at once, each with its request built.
C10_Witness ==
    /\ calls[1].pc = "send"
    /\ calls[1].op = "CreateIncident"
    /\ calls[2].pc = "status"
    /\ calls[2].op = "UpdateIncident"

====
